---- MODULE Spec2Model ----
(***************************************************************************)
(* Model of wagtail_algolia_search/backend.py: the ObjectIndexer, the      *)
(* AlgoliaIndex write path and settings push, and the AlgoliaSearchResults *)
(* reconciliation with its memoized caches.                                *)
(*                                                                         *)
(* Python strings that the code formats and parses (objectIDs, model       *)
(* names, facet entries) are sequences of atoms: an atom is either a       *)
(* separator (":", ".", "__", "(", ")") or a separator-free piece of text. *)
(* Formatting is concatenation, str.split is a real split.                 *)
(* An optional value is a sequence of length 0 (None) or 1.                *)
(***************************************************************************)
EXTENDS Integers, Sequences, FiniteSets, TLC

\* ------------------------------------------------------------------ bounds
\* longest "hits" list the external service returns for one query
MaxHits == 3
\* most index.search calls observed on one result object
MaxCalls == 2
\* longest obj_list handed to add_bulk
MaxBulk == 2
\* most rebuild cycles (Rebuilder.start) run on one backend
MaxCycles == 2
\* longest developer-supplied attributesForFaceting list in INDEX_SETTINGS
MaxBaseAttrs == 2
\* most related objects behind a multi-valued RelatedFields
MaxRelated == 2
\* most nested descriptors in a RelatedFields
MaxSubFields == 2

\* ------------------------------------------------------------ option values
None == <<>>
Some(x) == <<x>>

\* ------------------------------------------------------------------ strings
Str(s) == <<s>>

RECURSIVE SplitFrom(_, _, _)
\* str.split(sep) on the rest s of a string, cur being the part read so far
SplitFrom(s, sep, cur) ==
    IF s = <<>> THEN <<cur>>
    ELSE IF Head(s) = sep THEN <<cur>> \o SplitFrom(Tail(s), sep, <<>>)
    ELSE SplitFrom(Tail(s), sep, Append(cur, Head(s)))

\* s.split(sep): the list of parts, always at least one
Split(s, sep) == SplitFrom(s, sep, <<>>)

\* -------------------------------------------------------- the type registry
\* the models of the test project and of wagtail that it indexes
Types == {"Page", "BlogIndex", "BlogPage", "Document"}

\* model._meta.app_label
app_label(t) ==
    CASE t = "Page" -> "wagtailcore"
      [] t = "BlogIndex" -> "tests"
      [] t = "BlogPage" -> "tests"
      [] t = "Document" -> "wagtaildocs"

\* model._meta.object_name
object_name(t) == t

\* the direct base class of a model ("Model" is django.db.models.Model)
BaseOf(t) ==
    CASE t = "BlogIndex" -> "Page"
      [] t = "BlogPage" -> "Page"
      [] OTHER -> "Model"

\* issubclass(a, b): b is a itself or one of its ancestors
issubclass(a, b) ==
    \/ a = b
    \/ BaseOf(a) = b
    \/ (BaseOf(a) \in Types /\ BaseOf(BaseOf(a)) = b)

\* isinstance(obj, Page)
IsPage(obj) == issubclass(obj.type, "Page")

\* isinstance(obj, TranslatableMixin): pages are translatable, documents are not
IsTranslatable(obj) == issubclass(obj.type, "Page")

\* ------------------------------------------------------ search field declarations
\* the descriptors a type declares directly in its search_fields, in declaration order
OwnSearchFields(t) ==
    CASE t = "Page" ->
           << [kind |-> "SearchField", field_name |-> "title", defined_in |-> "Page"],
              [kind |-> "FilterField", field_name |-> "title", defined_in |-> "Page"],
              [kind |-> "FilterField", field_name |-> "live", defined_in |-> "Page"] >>
      [] t = "BlogPage" ->
           << [kind |-> "SearchField", field_name |-> "introduction", defined_in |-> "BlogPage"],
              [kind |-> "FilterField", field_name |-> "is_featured", defined_in |-> "BlogPage"] >>
      [] t = "Document" ->
           << [kind |-> "SearchField", field_name |-> "title", defined_in |-> "Document"],
              [kind |-> "FilterField", field_name |-> "collection", defined_in |-> "Document"] >>
      [] OTHER -> << >>

\* model.get_search_fields(): the inherited descriptors, then the type's own
get_search_fields(t) ==
    (IF BaseOf(t) \in Types THEN OwnSearchFields(BaseOf(t)) ELSE << >>) \o OwnSearchFields(t)

IsFilterField(f) == f.kind = "FilterField"

\* model.get_filterable_search_fields()
get_filterable_search_fields(t) == SelectSeq(get_search_fields(t), IsFilterField)

\* search_field.get_definition_model(model)
get_definition_model(f, t) == f.defined_in

\* wagtail.search.index.get_indexed_models(), in registration order
get_indexed_models == << "Document", "Page", "BlogIndex", "BlogPage" >>

\* ------------------------------------------------------------- dictionaries
\* a dict is a function; d.get(k) is an option
EmptyDict == [k \in {} |-> None]

HasKey(d, k) == k \in DOMAIN d

\* d[k] = v
Put(d, k, v) == [x \in (DOMAIN d) \cup {k} |-> IF x = k THEN v ELSE d[x]]

RECURSIVE Concat(_)
\* the concatenation of a list of lists
Concat(ss) == IF ss = << >> THEN << >> ELSE Head(ss) \o Concat(Tail(ss))

\* ------------------------------------------------------------ object instances
\* the rows of the host object store: pages share one pk space (multi-table
\* inheritance), documents have their own; the row of depth 1 is the root page
HostRows ==
    { [type |-> "Page",      pk |-> 1, depth |-> 1, is_featured |-> FALSE],
      [type |-> "BlogIndex", pk |-> 2, depth |-> 2, is_featured |-> FALSE],
      [type |-> "BlogPage",  pk |-> 3, depth |-> 3, is_featured |-> TRUE],
      [type |-> "BlogPage",  pk |-> 4, depth |-> 3, is_featured |-> FALSE],
      [type |-> "Document",  pk |-> 3, depth |-> 0, is_featured |-> FALSE] }

\* the rows the write path is exercised with
IndexedRows == { r \in HostRows : r.type # "BlogIndex" }

Titles == {"Apples and Strawberries", "Orange and Lemons"}

\* the instances handed to add, add_bulk and delete: a row with its current title;
\* two instances with the same type and pk are the same instance at different times
Objects ==
    { [type |-> r.type, pk |-> r.pk, depth |-> r.depth, is_featured |-> r.is_featured,
       title |-> t,
       locale |-> IF issubclass(r.type, "Page") THEN Some("en") ELSE None]
      : r \in IndexedRows, t \in Titles }

\* the identity of an instance
KeyOf(obj) == << obj.type, obj.pk >>

InstanceKeys == { KeyOf(o) : o \in Objects }

\* Page.is_root()
is_root(obj) == obj.depth = 1

\* -------------------------------------------------------------- ObjectIndexer
\* a scalar attribute value, and a related model instance
Scalar(x) == [k |-> "scalar", v |-> x]
Related(pk) == [k |-> "model", pk |-> pk]

\* field.get_value(obj)
get_value(obj, f) ==
    CASE f.field_name = "title" -> Scalar(obj.title)
      [] f.field_name = "live" -> Scalar(TRUE)
      [] f.field_name = "is_featured" -> Scalar(obj.is_featured)
      [] f.field_name = "introduction" -> Scalar("My introduction")
      [] f.field_name = "collection" -> Related(1)
      [] f.field_name = "name" -> Scalar(obj.name)
      [] f.field_name = "year_published" -> Scalar(obj.year_published)

\* ObjectIndexer.get_object_id
get_object_id(obj) ==
    << app_label(obj.type), ".", object_name(obj.type), ":", ToString(obj.pk) >>

\* ObjectIndexer.get_field_key
get_field_key(model, search_field) ==
    LET field_defined_in == get_definition_model(search_field, model)
    IN << app_label(field_defined_in), "__", object_name(field_defined_in) >>

\* ObjectIndexer.prepare_field: the (field, value) pairs the generator yields
\* for a descriptor with a single yield; the RelatedFields branch is stepped
\* through one resumption at a time by the actions on rel_field below
prepare_field(obj, field) ==
    LET value == get_value(obj, field)
    IN IF field.kind \in {"SearchField", "AutocompleteField"}
       THEN << << field, value.v >> >>
       ELSE IF field.kind = "FilterField"
       THEN IF value.k = "model"
            THEN << << field, value.pk >> >>
            ELSE << << field, value.v >> >>
       ELSE << >>

RECURSIVE WritePairs(_, _, _)
\* the inner loop of get_document: doc[get_field_key(model, f)][f.field_name] = value
WritePairs(doc, model, pairs) ==
    IF pairs = << >> THEN doc
    ELSE LET current_field == Head(pairs)[1]
             value == Head(pairs)[2]
             key == get_field_key(model, current_field)
             sub == IF HasKey(doc, key) THEN doc[key] ELSE EmptyDict
         IN WritePairs(Put(doc, key, Put(sub, current_field.field_name, value)),
                       model, Tail(pairs))

RECURSIVE WriteFields(_, _, _)
\* the outer loop of get_document over model.get_search_fields()
WriteFields(doc, obj, fields) ==
    IF fields = << >> THEN doc
    ELSE WriteFields(WritePairs(doc, obj.type, prepare_field(obj, Head(fields))),
                     obj, Tail(fields))

\* get_document that sets "locale" only for a translatable instance with a locale
get_document_NoLocaleDefault(obj) ==
    LET d1 == Put(EmptyDict, Str("objectID"), get_object_id(obj))
        d2 == Put(d1, Str("wagtail_managed"), TRUE)
        d3 == IF IsTranslatable(obj) /\ obj.locale # None
              THEN Put(d2, Str("locale"), obj.locale)
              ELSE d2
        d4 == Put(d3, Str("model"), << app_label(obj.type), ".", object_name(obj.type) >>)
    IN WriteFields(d4, obj, get_search_fields(obj.type))

\* ObjectIndexer.get_document
get_document(obj) ==
    LET d1 == Put(EmptyDict, Str("objectID"), get_object_id(obj))
        d2 == Put(d1, Str("wagtail_managed"), TRUE)
        d3 == Put(d2, Str("locale"),
                  IF IsTranslatable(obj) /\ obj.locale # None THEN obj.locale ELSE None)
        d4 == Put(d3, Str("model"), << app_label(obj.type), ".", object_name(obj.type) >>)
    IN WriteFields(d4, obj, get_search_fields(obj.type))

\* ---------------------------------------------------------------- the state
VARIABLES
    \* the external index: objectID -> document (save_objects, delete_object)
    extIndex,
    \* per instance, the last backend operation applied to it (observation of the calls)
    lastOp,
    \* AlgoliaSearchBackend.index_settings, the dict every AlgoliaIndex is built with
    index_settings,
    \* the argument of the last index.set_settings call, if any
    pushed,
    \* the number of rebuild cycles run on the backend
    cycles,
    \* query_compiler.queryset of the result object: model, host predicate, ordering
    queryset,
    \* query_compiler.query.query_string
    query_string,
    \* the "hits" the external service answers this query with
    response,
    \* AlgoliaSearchResults._search_cache, _results_cache, _count_cache
    search_cache,
    results_cache,
    count_cache,
    \* the number of index.search calls made for the result object
    searchCalls,
    \* the arguments of the last index.search call, if any
    lastQuery,
    \* the last call made on the result object and how it ended
    lastCall,
    \* the RelatedFields descriptor get_document is preparing, and field.get_value(obj)
    rel_field,
    rel_value,
    \* where the prepare_field generator for rel_field stands
    gen_pc,
    \* the (field, value) pairs the generator has yielded so far
    yielded,
    \* doc[get_field_key(model, rel_field)][rel_field.field_name], once written
    rel_entry,
    \* the exception that left the generator, "" for none
    gen_raised

writeVars == << extIndex, lastOp, index_settings, pushed, cycles >>
searchVars == << queryset, query_string, response, search_cache, results_cache,
                 count_cache, searchCalls, lastQuery, lastCall >>
genVars == << rel_field, rel_value, gen_pc, yielded, rel_entry, gen_raised >>
vars == << extIndex, lastOp, index_settings, pushed, cycles, queryset, query_string,
           response, search_cache, results_cache, count_cache, searchCalls, lastQuery,
           lastCall, rel_field, rel_value, gen_pc, yielded, rel_entry, gen_raised >>

\* all lists over S of length at most n
SeqUpTo(S, n) == UNION { [1..k -> S] : k \in 0..n }

\* ------------------------------------------------------------ AlgoliaIndex: writes
RECURSIVE save_objects(_, _)
\* index.save_objects(docs): each document replaces the one with its objectID
save_objects(idx, docs) ==
    IF docs = << >> THEN idx
    ELSE save_objects(Put(idx, Head(docs)[Str("objectID")], Head(docs)), Tail(docs))

\* index.delete_object(object_id)
delete_object(idx, object_id) == [o \in (DOMAIN idx) \ {object_id} |-> idx[o]]

\* get_document is a function of the instance alone: its value for every instance
Documents == [o \in Objects |-> get_document(o)]

\* the condition of add_items without the root test
Indexable_All(obj) == TRUE

\* the condition of the comprehension in add_items
Indexable(obj) == ~IsPage(obj) \/ ~is_root(obj)

\* AlgoliaIndex.add_items
add_items(idx, model, objs) ==
    LET kept == SelectSeq(objs, Indexable)
    IN save_objects(idx, [i \in 1..Len(kept) |-> Documents[kept[i]]])

\* AlgoliaIndex.add_item
add_item(idx, obj) == add_items(idx, obj.type, << obj >>)

\* AlgoliaIndex.delete_item
delete_item(idx, obj) == delete_object(idx, get_object_id(obj))

\* ---------------------------------------------------- AlgoliaIndex.update_settings
SystemFacets ==
    << << "filterOnly", "(", "wagtail_managed", ")" >>, << "locale" >>, << "model" >> >>

\* f"filterOnly({app_label}__{object_name}.{field_name})"
FacetEntry(model, field_name) ==
    << "filterOnly", "(", app_label(model), "__", object_name(model), ".", field_name, ")" >>

\* the entries the inner loop appends for one model
ModelFacets(model) ==
    LET own(f) == get_definition_model(f, model) = model
        fs == SelectSeq(get_filterable_search_fields(model), own)
    IN [i \in 1..Len(fs) |-> FacetEntry(model, fs[i].field_name)]

\* the entries the loop over get_indexed_models() appends
FilterFacets ==
    Concat([i \in 1..Len(get_indexed_models) |-> ModelFacets(get_indexed_models[i])])

\* dict.copy() is shallow: the attributesForFaceting list of the copy is the list
\* object of the backend's dict unless the code rebinds the key to a new list,
\* which it does exactly when the key is missing or its list is empty
SharesFacetList(settings) ==
    /\ HasKey(settings, "attributesForFaceting")
    /\ settings["attributesForFaceting"] # << >>

\* the settings update_settings hands to index.set_settings
ComputedSettings(settings) ==
    LET start == IF SharesFacetList(settings)
                 THEN settings["attributesForFaceting"] ELSE << >>
    IN Put(settings, "attributesForFaceting", start \o SystemFacets \o FilterFacets)

\* Rebuilder.start: index.update_settings() on a fresh AlgoliaIndex of the backend
RebuilderStart ==
    /\ cycles < MaxCycles
    /\ pushed' = Some(ComputedSettings(index_settings))
    \* += and append extend a shared list in place
    /\ index_settings' = IF SharesFacetList(index_settings)
                         THEN ComputedSettings(index_settings)
                         ELSE index_settings
    /\ cycles' = cycles + 1
    /\ UNCHANGED << extIndex, lastOp >>
    /\ UNCHANGED << searchVars, genVars >>

\* ------------------------------------------------------------ AlgoliaSearchBackend
\* backend.add(obj)
Add ==
    \E obj \in Objects :
        /\ extIndex' = add_item(extIndex, obj)
        /\ lastOp' = [lastOp EXCEPT ![KeyOf(obj)] = [op |-> "add", obj |-> obj]]
        /\ UNCHANGED << index_settings, pushed, cycles >>
        /\ UNCHANGED << searchVars, genVars >>

\* the obj_list arguments of add_bulk(model, obj_list): instances of the model,
\* no instance twice
BulkLists(model) ==
    { l \in SeqUpTo({ o \in Objects : issubclass(o.type, model) }, MaxBulk) :
        \A i, j \in 1..Len(l) : KeyOf(l[i]) = KeyOf(l[j]) => i = j }

\* the arguments of add_bulk
BulkCalls == UNION { { << model, l >> : l \in BulkLists(model) } : model \in Types }

\* backend.add_bulk(model, obj_list)
AddBulk ==
    \E call \in BulkCalls :
        /\ extIndex' = add_items(extIndex, call[1], call[2])
        /\ lastOp' = [k \in InstanceKeys |->
                        IF \E i \in 1..Len(call[2]) : KeyOf(call[2][i]) = k
                        THEN [op |-> "add",
                              obj |-> call[2][CHOOSE i \in 1..Len(call[2]) :
                                                KeyOf(call[2][i]) = k]]
                        ELSE lastOp[k]]
        /\ UNCHANGED << index_settings, pushed, cycles >>
        /\ UNCHANGED << searchVars, genVars >>

\* backend.delete(obj)
Delete ==
    \E obj \in Objects :
        /\ extIndex' = delete_item(extIndex, obj)
        /\ lastOp' = [lastOp EXCEPT ![KeyOf(obj)] = [op |-> "delete", obj |-> << >>]]
        /\ UNCHANGED << index_settings, pushed, cycles >>
        /\ UNCHANGED << searchVars, genVars >>

\* the developer-supplied attributesForFaceting entries
DeveloperFacets == { << "category" >>, << "filterOnly", "(", "tags", ")" >> }

\* the INDEX_SETTINGS a backend is configured with
BaseConfigs ==
    { EmptyDict, [queryLanguages |-> << "en" >>] }
    \cup { [queryLanguages |-> << "en" >>, attributesForFaceting |-> l]
           : l \in SeqUpTo(DeveloperFacets, MaxBaseAttrs) }

\* ------------------------------------------------------- the host object store
RECURSIVE OrderedByPk(_, _)
\* the rows of T by ascending ("pk") or descending ("-pk") pk
OrderedByPk(T, ordering) ==
    IF T = {} THEN << >>
    ELSE LET first == CHOOSE r \in T :
                        \A o \in T : IF ordering = "pk" THEN r.pk <= o.pk ELSE r.pk >= o.pk
         IN << first >> \o OrderedByPk(T \ {first}, ordering)

\* the instances of a queryset, in its own ordering
QuerysetRows(qs) ==
    OrderedByPk({ r \in HostRows : /\ issubclass(r.type, qs.model)
                                   /\ (qs.predicate = "is_featured" => r.is_featured) },
                qs.ordering)

\* the value of Case(*[When(pk=pk, then=pos) ...]) for a row: SQL takes the first
\* When that matches; 0 stands for NULL (no When matches), positions count from 1
CasePosition(pks, row) ==
    LET at == { i \in 1..Len(pks) : pks[i] = Str(ToString(row.pk)) }
    IN IF at = {} THEN 0 ELSE CHOOSE i \in at : \A j \in at : i <= j

RECURSIVE InsertByPosition(_, _, _)
\* row put into a list sorted by CasePosition, after the rows that sort earlier
InsertByPosition(sorted, row, pks) ==
    IF sorted = << >> THEN << row >>
    ELSE IF CasePosition(pks, Head(sorted)) < CasePosition(pks, row)
         THEN << Head(sorted) >> \o InsertByPosition(Tail(sorted), row, pks)
         ELSE << row >> \o sorted

RECURSIVE SortByPosition(_, _)
SortByPosition(rows, pks) ==
    IF rows = << >> THEN << >>
    ELSE InsertByPosition(SortByPosition(Tail(rows), pks), Head(rows), pks)

\* a reconciliation that leaves the queryset in its own ordering
order_by_Default(rows, pks) == rows

\* .order_by(preserved)
order_by(rows, pks) == SortByPosition(rows, pks)

\* a reconciliation that re-queries the model's whole table instead of the queryset
filter_pk_in_Unfiltered(qs, pks) ==
    LET inPks(r) == CasePosition(pks, r) # 0
    IN SelectSeq(QuerysetRows([qs EXCEPT !.predicate = "all"]), inPks)

\* queryset.filter(pk__in=pks)
filter_pk_in(qs, pks) ==
    LET inPks(r) == CasePosition(pks, r) # 0
    IN SelectSeq(QuerysetRows(qs), inPks)

\* ------------------------------------------------------------- hit parsing
NoError == [exc |-> "", field_name |-> "", model |-> ""]

\* django.apps.apps.get_model("app_label.ModelName"): ValueError unless the name has
\* exactly one dot, LookupError when the app or the model is not registered
get_model(name) ==
    LET parts == Split(name, ".")
    IN IF Len(parts) # 2
       THEN [exc |-> "ValueError", model |-> ""]
       ELSE LET found == { t \in Types : /\ Str(app_label(t)) = parts[1]
                                          /\ Str(object_name(t)) = parts[2] }
            IN IF found = {}
               THEN [exc |-> "LookupError", model |-> ""]
               ELSE [exc |-> "", model |-> CHOOSE t \in found : TRUE]

\* a type test that keeps every resolved hit
TypeMatches_Any(result_model, model) == TRUE

\* issubclass(result_model, model) in _do_search
TypeMatches(result_model, model) == issubclass(result_model, model)

\* result_model = apps.get_model(result_model_name) and the issubclass test, given
\* what get_model did
Resolved(got, pk, model) ==
    IF got.exc # ""
    THEN [exc |-> got.exc, keep |-> FALSE, pk |-> << >>]
    ELSE [exc |-> "", keep |-> TypeMatches(got.model, model), pk |-> pk]

\* result_model_name, pk = parts: ValueError unless there are exactly two parts
Unpacked(parts, model) ==
    IF Len(parts) # 2
    THEN [exc |-> "ValueError", keep |-> FALSE, pk |-> << >>]
    ELSE Resolved(get_model(parts[1]), parts[2], model)

\* the body of the try block for one hit: the exception it raises ("" for none)
\* and whether it appends the pk
ParseHit(objectID, model) == Unpacked(Split(objectID, ":"), model)

\* a handler that lets every exception of the try block escape
Handled_Nothing(p) ==
    IF p.exc # "" THEN [raised |-> p.exc, keep |-> FALSE, pk |-> << >>]
    ELSE [raised |-> "", keep |-> p.keep, pk |-> p.pk]

\* except ValueError: continue. ValueError is absorbed, anything else escapes
Handled(p) ==
    IF p.exc = "ValueError" THEN [raised |-> "", keep |-> FALSE, pk |-> << >>]
    ELSE IF p.exc # "" THEN [raised |-> p.exc, keep |-> FALSE, pk |-> << >>]
    ELSE [raised |-> "", keep |-> p.keep, pk |-> p.pk]

\* try/except around one hit
HitOutcome(objectID, model) == Handled(ParseHit(objectID, model))

RECURSIVE CollectPks(_, _, _)
RECURSIVE AfterHit(_, _, _, _)
\* the rest of the loop once a hit had outcome o
AfterHit(o, rest, model, pks) ==
    IF o.raised # "" THEN [raised |-> o.raised, pks |-> pks]
    ELSE CollectPks(rest, model, IF o.keep THEN Append(pks, o.pk) ELSE pks)

\* the loop over results["hits"]: the pks kept, or the exception that ended it
CollectPks(hits, model, pks) ==
    IF hits = << >> THEN [raised |-> "", pks |-> pks]
    ELSE AfterHit(HitOutcome(Head(hits), model), Tail(hits), model, pks)

\* lines 231-233: the re-query of the host store for the collected pks
Requery(c, qs) ==
    IF c.raised # ""
    THEN [raised |-> c.raised, rows |-> << >>]
    ELSE [raised |-> "", rows |-> order_by(filter_pk_in(qs, c.pks), c.pks)]

\* _do_search after the cache test: the reconciled rows, or the exception raised
Reconcile(hits, qs) == Requery(CollectPks(hits, qs.model, << >>), qs)

\* lines 235-238: the caches after a search that returned r
Memoized(r) ==
    IF r.raised # ""
    THEN [called |-> TRUE, raised |-> r.raised, sc |-> search_cache,
          rc |-> results_cache, cc |-> count_cache]
    ELSE [called |-> TRUE, raised |-> "", sc |-> Some(r.rows),
          rc |-> Some(r.rows), cc |-> Some(Len(r.rows))]

\* ------------------------------------------------------ AlgoliaSearchResults
\* AlgoliaSearchQueryCompiler.get_query
get_query(qstring) ==
    << qstring,
       [filters |-> << "wagtail_managed", ":", "true" >>,
        attributesToRetrieve |-> << "objectID" >>,
        attributesToHighlight |-> << >>] >>

\* bool(self._search_cache): None and an empty QuerySet are both falsy
Truthy(cache) == cache # None /\ cache[1] # << >>

\* whether _do_search, called now, goes past its cache test and calls index.search
WouldSearch == ~Truthy(search_cache)

\* _do_search: the external call it makes, the caches it leaves, the exception raised
do_search ==
    IF ~WouldSearch
    THEN [called |-> FALSE, raised |-> "", sc |-> search_cache, rc |-> results_cache,
          cc |-> count_cache]
    ELSE Memoized(Reconcile(response, queryset))

\* the effect on the result object of a _do_search call that did d
Effect(d, op, field_name) ==
    /\ d.called => searchCalls < MaxCalls
    /\ search_cache' = d.sc
    /\ results_cache' = d.rc
    /\ count_cache' = d.cc
    /\ searchCalls' = IF d.called THEN searchCalls + 1 ELSE searchCalls
    /\ lastQuery' = IF d.called THEN Some(get_query(query_string)) ELSE lastQuery
    /\ lastCall' = [op |-> op, field_name |-> field_name,
                    error |-> IF d.raised = "" THEN NoError
                              ELSE [exc |-> d.raised, field_name |-> "", model |-> ""]]

\* one _do_search call made on behalf of operation op
RunSearch(op, field_name) == Effect(do_search, op, field_name)

\* a call that touches nothing but the record of the last call
NoSearch(op, field_name, error) ==
    /\ lastCall' = [op |-> op, field_name |-> field_name, error |-> error]
    /\ UNCHANGED << search_cache, results_cache, count_cache, searchCalls, lastQuery >>

\* list(result): BaseSearchResults.results() calls _do_search unless _results_cache is set
Iterate ==
    /\ IF results_cache = None
       THEN RunSearch("iterate", "")
       ELSE NoSearch("iterate", "", NoError)
    /\ UNCHANGED << queryset, query_string, response >>
    /\ UNCHANGED << writeVars, genVars >>

\* _do_count
Count ==
    /\ IF count_cache = None
       THEN RunSearch("count", "")
       ELSE NoSearch("count", "", NoError)
    /\ UNCHANGED << queryset, query_string, response >>
    /\ UNCHANGED << writeVars, genVars >>

\* query_compiler._get_filterable_field(field_name): the field, or None
get_filterable_field(model, field_name) ==
    LET fs == get_filterable_search_fields(model)
        at == { i \in 1..Len(fs) : fs[i].field_name = field_name }
    IN IF at = {} THEN None ELSE Some(fs[CHOOSE i \in at : TRUE])

\* the field names facet is called with
FacetNames == {"is_featured", "title"}

\* facet(field_name) that runs the search before it looks the field up
Facet_SearchFirst ==
    \E field_name \in FacetNames :
        /\ RunSearch("facet", field_name)
        /\ UNCHANGED << queryset, query_string, response >>
        /\ UNCHANGED << writeVars, genVars >>

\* AlgoliaSearchResults.facet
Facet ==
    \E field_name \in FacetNames :
        /\ IF get_filterable_field(queryset.model, field_name) = None
           THEN NoSearch("facet", field_name,
                         [exc |-> "FilterFieldError", field_name |-> field_name,
                          model |-> queryset.model])
           ELSE RunSearch("facet", field_name)
        /\ UNCHANGED << queryset, query_string, response >>
        /\ UNCHANGED << writeVars, genVars >>

\* ------------------------------------------- prepare_field on RelatedFields
\* the values a RelatedFields entry of the document can hold
PyNone == [t |-> "None"]
PyDict(d) == [t |-> "dict", d |-> d]
PyList(l) == [t |-> "list", items |-> l]

\* what field.get_value(obj) is for a RelatedFields descriptor: nothing, a
\* related instance, a method returning one, or a Manager over several
NoRelated == [k |-> "none"]
RelatedInstance(o) == [k |-> "instance", obj |-> o]
RelatedCallable(o) == [k |-> "callable", obj |-> o]
RelatedManager(l) == [k |-> "manager", objs |-> l]

RECURSIVE PutPairs(_, _)
\* {current_field.field_name: value for current_field, value in pairs}
PutPairs(d, pairs) ==
    IF pairs = << >> THEN d
    ELSE PutPairs(Put(d, Head(pairs)[1].field_name, Head(pairs)[2]), Tail(pairs))

RECURSIVE SubDocument(_, _, _)
\* the dict comprehension over field.fields and self.prepare_field(sub_obj, sub_field)
SubDocument(d, sub_obj, fields) ==
    IF fields = << >> THEN d
    ELSE SubDocument(PutPairs(d, prepare_field(sub_obj, Head(fields))), sub_obj, Tail(fields))

\* the list comprehension over sub_obj.all()
SubDocuments(sub_objs, fields) ==
    [i \in 1..Len(sub_objs) |-> SubDocument(EmptyDict, sub_objs[i], fields)]

\* the for loop of get_document receives a pair from the generator and writes it
YieldPair(value, pc) ==
    /\ yielded' = Append(yielded, << rel_field, value >>)
    /\ rel_entry' = Some(value)
    /\ gen_pc' = pc
    /\ UNCHANGED << rel_field, rel_value, gen_raised >>

\* an exception leaves the generator and get_document
RaiseFrom(exc) ==
    /\ gen_raised' = exc
    /\ gen_pc' = "raised"
    /\ UNCHANGED << rel_field, rel_value, yielded, rel_entry >>

\* first next(): sub_obj is None, the generator yields (field, None)
YieldForNone ==
    /\ gen_pc = "start"
    /\ rel_value.k = "none"
    /\ YieldPair(PyNone, "after_none")
    /\ UNCHANGED << writeVars, searchVars >>

\* second next() after (field, None): execution resumes below the yield; None is
\* no Manager and not callable, so the comprehension of the else branch runs, and
\* prepare_field(None, sub_field) reads None._meta in field.get_value
ResumeAfterNone ==
    /\ gen_pc = "after_none"
    /\ IF rel_field.fields = << >>
       THEN YieldPair(PyDict(EmptyDict), "after_last")
       ELSE RaiseFrom("AttributeError")
    /\ UNCHANGED << writeVars, searchVars >>

\* first next(): sub_obj is a Manager, one list of sub-documents is yielded
YieldForManager ==
    /\ gen_pc = "start"
    /\ rel_value.k = "manager"
    /\ YieldPair(PyList(SubDocuments(rel_value.objs, rel_field.fields)), "after_last")
    /\ UNCHANGED << writeVars, searchVars >>

\* first next(): sub_obj is an instance, or a callable that returns one
YieldForSingle ==
    /\ gen_pc = "start"
    /\ rel_value.k \in {"instance", "callable"}
    /\ YieldPair(PyDict(SubDocument(EmptyDict, rel_value.obj, rel_field.fields)), "after_last")
    /\ UNCHANGED << writeVars, searchVars >>

\* next() after the last yield: the generator body ends
Exhaust ==
    /\ gen_pc = "after_last"
    /\ gen_pc' = "exhausted"
    /\ UNCHANGED << rel_field, rel_value, yielded, rel_entry, gen_raised >>
    /\ UNCHANGED << writeVars, searchVars >>

\* ------------------------------------------------------------------ inputs
\* the objectIDs the external index answers with
HitIds ==
    { << "tests", ".", "BlogPage", ":", "3" >>,
      << "tests", ".", "BlogPage", ":", "4" >>,
      << "tests", ".", "BlogIndex", ":", "2" >>,
      << "wagtailcore", ".", "Page", ":", "4" >>,
      \* a document of an application that is not installed
      << "shop", ".", "Product", ":", "3" >>,
      \* a type name without a dot
      << "Product", ":", "3" >>,
      \* no separator, and two separators
      << "foreign-document" >>,
      << "tests", ".", "BlogPage", ":", "3", ":", "draft" >> }

\* the collections backend.search is called with
Querysets ==
    { [model |-> m, predicate |-> "all", ordering |-> o]
      : m \in {"Page", "BlogPage"}, o \in {"pk", "-pk"} }
    \cup { [model |-> "BlogPage", predicate |-> "is_featured", ordering |-> o]
           : o \in {"pk", "-pk"} }

QueryStrings == {"Apples"}

NotCalled == [op |-> "", field_name |-> "", error |-> NoError]

\* no backend operation yet: an empty index, INDEX_SETTINGS as configured
WriteInit(config) ==
    /\ extIndex = EmptyDict
    /\ lastOp = [k \in InstanceKeys |-> [op |-> "none", obj |-> << >>]]
    /\ index_settings = config
    /\ pushed = None
    /\ cycles = 0

\* AlgoliaSearchResults.__init__ for backend.search(qstring, qs)
SearchInit(qs, qstring, hits) ==
    /\ queryset = qs
    /\ query_string = qstring
    /\ response = hits
    /\ search_cache = None
    /\ results_cache = None
    /\ count_cache = None
    /\ searchCalls = 0
    /\ lastQuery = None
    /\ lastCall = NotCalled

\* the related objects a RelatedFields descriptor can lead to
SubObjects ==
    { [name |-> "Ada", year_published |-> 1843],
      [name |-> "Grace", year_published |-> 1952] }

\* the descriptors nested in a RelatedFields
SubFields ==
    { [kind |-> "SearchField", field_name |-> "name", defined_in |-> "BlogPage"],
      [kind |-> "FilterField", field_name |-> "year_published", defined_in |-> "BlogPage"] }

RelatedValues ==
    {NoRelated}
    \cup { RelatedInstance(o) : o \in SubObjects }
    \cup { RelatedCallable(o) : o \in SubObjects }
    \cup { RelatedManager(l) : l \in SeqUpTo(SubObjects, MaxRelated) }

RelatedFieldsOf(fields) ==
    [kind |-> "RelatedFields", field_name |-> "author", defined_in |-> "BlogPage",
     fields |-> fields]

\* get_document reaches a RelatedFields descriptor and calls prepare_field
GenInit(field, value) ==
    /\ rel_field = field
    /\ rel_value = value
    /\ gen_pc = "start"
    /\ yielded = << >>
    /\ rel_entry = None
    /\ gen_raised = ""

\* ------------------------------------------------------------- specifications
\* the backend's write path: add, add_bulk, delete and rebuild cycles
Init ==
    /\ \E config \in BaseConfigs : WriteInit(config)
    /\ SearchInit(CHOOSE q \in Querysets : TRUE, CHOOSE q \in QueryStrings : TRUE, << >>)
    /\ GenInit(RelatedFieldsOf(<< >>), NoRelated)

Next == Add \/ AddBulk \/ Delete \/ RebuilderStart

Spec == Init /\ [][Next]_vars

\* one result object of backend.search: iteration, count and facet
ResultsInit ==
    /\ WriteInit(EmptyDict)
    /\ \E qs \in Querysets, qstring \in QueryStrings, hits \in SeqUpTo(HitIds, MaxHits) :
           SearchInit(qs, qstring, hits)
    /\ GenInit(RelatedFieldsOf(<< >>), NoRelated)

ResultsNext == Iterate \/ Count \/ Facet

ResultsSpec == ResultsInit /\ [][ResultsNext]_vars

\* get_document preparing one RelatedFields descriptor of an object
FieldsInit ==
    /\ WriteInit(EmptyDict)
    /\ SearchInit(CHOOSE q \in Querysets : TRUE, CHOOSE q \in QueryStrings : TRUE, << >>)
    /\ \E fields \in SeqUpTo(SubFields, MaxSubFields), value \in RelatedValues :
           GenInit(RelatedFieldsOf(fields), value)

FieldsNext == YieldForNone \/ ResumeAfterNone \/ YieldForManager \/ YieldForSingle \/ Exhaust

FieldsSpec == FieldsInit /\ [][FieldsNext]_vars

\* ---------------------------------------------------------------- properties
\* what the claims speak of, stated without the code's loop

\* the objectID <app_label>.<object_name>:<pk> of the instance with key k
ExpectedId(k) == << app_label(k[1]), ".", k[1], ":", ToString(k[2]) >>

\* the root page
IsRootKey(k) == \E r \in HostRows : r.type = k[1] /\ r.pk = k[2] /\ r.depth = 1
                                    /\ issubclass(r.type, "Page")

\* row r belongs to the collection qs
InQueryset(r, qs) ==
    /\ issubclass(r.type, qs.model)
    /\ (qs.predicate = "is_featured" => r.is_featured)

\* the hit has the form <type>:<id>
WellFormed(hit) == Len(Split(hit, ":")) = 2

\* the hit names, by a resolvable type that is the model of qs or a subtype of it,
\* an instance of the collection
Retained(hit, qs) ==
    /\ WellFormed(hit)
    /\ get_model(Split(hit, ":")[1]).exc = ""
    /\ issubclass(get_model(Split(hit, ":")[1]).model, qs.model)
    /\ \E r \in HostRows : InQueryset(r, qs) /\ Str(ToString(r.pk)) = Split(hit, ":")[2]

\* the instance a retained hit names
RowOf(hit, qs) ==
    CHOOSE r \in HostRows : InQueryset(r, qs) /\ Str(ToString(r.pk)) = Split(hit, ":")[2]

RECURSIVE FirstOccurrences(_, _, _)
\* the instances of the retained hits, in hit order, each at its first occurrence
FirstOccurrences(hits, qs, acc) ==
    IF hits = << >> THEN acc
    ELSE FirstOccurrences(
             Tail(hits), qs,
             IF Retained(Head(hits), qs)
                /\ \A i \in 1..Len(acc) : acc[i] # RowOf(Head(hits), qs)
             THEN Append(acc, RowOf(Head(hits), qs))
             ELSE acc)

ExpectedRows == FirstOccurrences(response, queryset, << >>)

\* C1: once a result object has memoized results and count, no later demand
\* (iteration, count, facet on a declared field) executes the external search
\* again, whatever the reconciled set is.
C1_SearchedAtMostOnce ==
    [][(count_cache # None /\ count_cache' # None) => searchCalls' = searchCalls]_vars

\* C2: the reconciled result list is the subsequence of retained hits in hit
\* order, each instance at the position of its first retained hit, whatever the
\* ordering of the host collection.
C2_RelevanceOrder ==
    results_cache # None => results_cache[1] = ExpectedRows

\* a three-hit response whose middle hit is dropped and whose two retained
\* instances come back against the collection's own ordering
C2_Witness ==
    /\ results_cache # None
    /\ Len(response) = 3
    /\ ~Retained(response[2], queryset)
    /\ Len(results_cache[1]) = 2
    /\ queryset.ordering = "pk"
    /\ results_cache[1][1].pk > results_cache[1][2].pk

\* C3: every instance of the result is named by a hit whose resolved type is the
\* requested type or a subtype of it; a sibling or strict-ancestor hit
\* contributes none.
C3_TypeFiltering ==
    results_cache # None =>
        \A i \in 1..Len(results_cache[1]) :
            \E j \in 1..Len(response) :
                /\ WellFormed(response[j])
                /\ Split(response[j], ":")[2] = Str(ToString(results_cache[1][i].pk))
                /\ get_model(Split(response[j], ":")[1]).exc = ""
                /\ issubclass(get_model(Split(response[j], ":")[1]).model, queryset.model)

\* a BlogPage search answered with a strict-ancestor hit for BlogPage 4 and a
\* sibling hit: neither brings an instance, the BlogPage hit does
C3_Witness ==
    /\ results_cache # None
    /\ queryset.model = "BlogPage"
    /\ \E j \in 1..Len(response) : response[j] = << "wagtailcore", ".", "Page", ":", "4" >>
    /\ \E j \in 1..Len(response) : response[j] = << "tests", ".", "BlogIndex", ":", "2" >>
    /\ Len(results_cache[1]) = 1
    /\ results_cache[1][1].pk = 3

\* C4: the result holds only instances of the collection (its predicate
\* included), and the arguments of the external search are the query string and
\* the fixed parameters, the same for every collection.
C4_HostPredicate ==
    /\ results_cache # None =>
           \A i \in 1..Len(results_cache[1]) : InQueryset(results_cache[1][i], queryset)
    /\ lastQuery # None =>
           lastQuery[1] = << query_string,
                             [filters |-> << "wagtail_managed", ":", "true" >>,
                              attributesToRetrieve |-> << "objectID" >>,
                              attributesToHighlight |-> << >>] >>

\* a search over the featured BlogPages answered with the featured and the
\* unfeatured BlogPage: only the featured one comes back
C4_Witness ==
    /\ results_cache # None
    /\ queryset.predicate = "is_featured"
    /\ \E j \in 1..Len(response) : response[j] = << "tests", ".", "BlogPage", ":", "4" >>
    /\ \E j \in 1..Len(response) : response[j] = << "tests", ".", "BlogPage", ":", "3" >>
    /\ Len(results_cache[1]) = 1
    /\ results_cache[1][1].pk = 3
    /\ lastQuery # None

\* the filterOnly entries of the FilterFields the registered types declare directly
DeclaredFacets ==
    UNION { { FacetEntry(t, OwnSearchFields(t)[j].field_name)
              : j \in { n \in 1..Len(OwnSearchFields(t)) : IsFilterField(OwnSearchFields(t)[n]) } }
            : t \in { get_indexed_models[i] : i \in 1..Len(get_indexed_models) } }

OccurrencesIn(list, e) == Cardinality({ i \in 1..Len(list) : list[i] = e })

\* C5: after update_settings the pushed attributesForFaceting holds the three
\* system entries and one entry per directly declared FilterField, and no entry
\* twice, for every base configuration and every number of rebuild cycles.
C5_FacetingExact ==
    pushed # None =>
        /\ \A i \in 1..Len(SystemFacets) :
               OccurrencesIn(pushed[1]["attributesForFaceting"], SystemFacets[i]) = 1
        /\ \A e \in DeclaredFacets :
               OccurrencesIn(pushed[1]["attributesForFaceting"], e) = 1
        /\ \A i \in 1..Len(pushed[1]["attributesForFaceting"]) :
               pushed[1]["attributesForFaceting"][i] \in
                   DeveloperFacets \cup DeclaredFacets
                   \cup { SystemFacets[n] : n \in 1..Len(SystemFacets) }

\* C6: after any add, add_bulk and delete operations the external index holds a
\* document under <type>:<id> exactly for the instances that are not the root
\* page and whose last operation was an add, that document being the one built
\* by the last add; the root page is never written.
C6_Lifecycle ==
    /\ \A k \in InstanceKeys :
           /\ ExpectedId(k) \in DOMAIN extIndex <=> (~IsRootKey(k) /\ lastOp[k].op = "add")
           /\ ExpectedId(k) \in DOMAIN extIndex =>
                  extIndex[ExpectedId(k)] = get_document(lastOp[k].obj)
    /\ DOMAIN extIndex \subseteq { ExpectedId(k) : k \in InstanceKeys }

\* the root page was added, BlogPage 3 was added and then deleted, BlogPage 4 was
\* added again after its title changed
C6_Witness ==
    /\ lastOp[<< "Page", 1 >>].op = "add"
    /\ lastOp[<< "BlogPage", 3 >>].op = "delete"
    /\ lastOp[<< "BlogPage", 4 >>].op = "add"
    /\ lastOp[<< "BlogPage", 4 >>].obj.title = "Orange and Lemons"
    /\ DOMAIN extIndex = { ExpectedId(<< "BlogPage", 4 >>) }

\* C7: a facet call on a field the collection's type does not declare as a
\* FilterField raises FilterFieldError naming the field and the type, executes no
\* external search and leaves the memoized results and count as they were.
C7_FacetFailsFast ==
    [][(/\ lastCall'.op = "facet"
        /\ get_filterable_field(queryset.model, lastCall'.field_name) = None)
       => (/\ lastCall'.error = [exc |-> "FilterFieldError",
                                 field_name |-> lastCall'.field_name,
                                 model |-> queryset.model]
           /\ searchCalls' = searchCalls
           /\ lastQuery' = lastQuery
           /\ search_cache' = search_cache
           /\ results_cache' = results_cache
           /\ count_cache' = count_cache)]_vars

\* facet("is_featured") has just failed on a Page collection whose results were
\* memoized by the one search made before
C7_Witness ==
    /\ lastCall.op = "facet"
    /\ lastCall.field_name = "is_featured"
    /\ lastCall.error.exc = "FilterFieldError"
    /\ queryset.model = "Page"
    /\ searchCalls = 1
    /\ results_cache # None
    /\ Len(results_cache[1]) > 0

\* the four root-level keys of a document
RootKeys == { Str("objectID"), Str("wagtail_managed"), Str("locale"), Str("model") }

\* the instances whose last operation was an add
Added == { k \in InstanceKeys : lastOp[k].op = "add" }

\* C8: the document built for an instance has the four root-level keys,
\* wagtail_managed true and objectID <app_label>.<object_name>:<pk>; the objectID
\* is the same however often the instance is rebuilt and two instances that
\* differ in type or id never share one.
C8_DocumentIdentity ==
    /\ \A k \in Added :
           /\ RootKeys \subseteq DOMAIN get_document(lastOp[k].obj)
           /\ get_document(lastOp[k].obj)[Str("wagtail_managed")] = TRUE
           /\ get_document(lastOp[k].obj)[Str("objectID")] = ExpectedId(k)
           /\ get_document(lastOp[k].obj)[Str("model")]
                  = << app_label(k[1]), ".", object_name(k[1]) >>
    /\ \A k1, k2 \in Added :
           get_document(lastOp[k1].obj)[Str("objectID")]
               = get_document(lastOp[k2].obj)[Str("objectID")] => k1 = k2
    /\ Cardinality(DOMAIN extIndex) = Cardinality({ k \in Added : ~IsRootKey(k) })

\* BlogPage 3, BlogPage 4 (same type) and Document 3 (same id) are all indexed,
\* BlogPage 3 with its second title
C8_Witness ==
    /\ Added = InstanceKeys
    /\ lastOp[<< "BlogPage", 3 >>].obj.title = "Orange and Lemons"
    /\ lastOp[<< "Document", 3 >>].obj.locale = None
    /\ Cardinality(DOMAIN extIndex) = 3

\* the hit has two parts and its type name resolves to no registered type
Unresolvable(hit) == WellFormed(hit) /\ get_model(Split(hit, ":")[1]).exc # ""

\* C9: a search whose response has a two-part hit with an unresolvable type name
\* does not fail: the hit is skipped and the other hits are reconciled in order.
C9_UnresolvableSkipped ==
    (/\ lastCall.op \in {"iterate", "count"}
     /\ \E j \in 1..Len(response) : Unresolvable(response[j]))
    => (lastCall.error = NoError /\ results_cache = Some(ExpectedRows))

RECURSIVE WellFormedOnly(_)
\* the response without its malformed hits
WellFormedOnly(hits) ==
    IF hits = << >> THEN << >>
    ELSE IF WellFormed(Head(hits)) THEN << Head(hits) >> \o WellFormedOnly(Tail(hits))
    ELSE WellFormedOnly(Tail(hits))

\* the demand ended as r says a search does
EndedAs(r) ==
    /\ lastCall.error.exc = r.raised
    /\ r.raised = "" => results_cache = Some(r.rows)

\* C10: a hit whose objectID does not split on ":" into exactly two parts is
\* skipped without error: a demand for results or count ends as it would on the
\* response without the malformed hits, the remaining hits reconciled in order.
C10_MalformedSkipped ==
    lastCall.op \in {"iterate", "count"} =>
        /\ lastCall.error.exc # "ValueError"
        /\ EndedAs(Reconcile(WellFormedOnly(response), queryset))
        /\ lastCall.error = NoError => results_cache = Some(ExpectedRows)

\* a response with a hit without separator, a hit with two separators and a
\* BlogPage hit between them, reconciled to that BlogPage
C10_Witness ==
    /\ lastCall.op \in {"iterate", "count"}
    /\ lastCall.error = NoError
    /\ response = << << "foreign-document" >>,
                     << "tests", ".", "BlogPage", ":", "4" >>,
                     << "tests", ".", "BlogPage", ":", "3", ":", "draft" >> >>
    /\ results_cache # None
    /\ Len(results_cache[1]) = 1
    /\ results_cache[1][1].pk = 4

\* C11: prepare_field on a RelatedFields descriptor whose related value is
\* null yields exactly one pair, (descriptor, null), and then stops: no
\* exception leaves the generator, nothing further is yielded, and the
\* document entry of the descriptor stays null
C11_NullIsTerminal ==
    (rel_value.k = "none" /\ gen_pc # "start") =>
        /\ gen_raised = ""
        /\ yielded = << << rel_field, PyNone >> >>
        /\ rel_entry = Some(PyNone)

\* C12: update_settings leaves the backend's configured INDEX_SETTINGS as they
\* were, the contents of a developer-supplied attributesForFaceting list
\* included, and every rebuild cycle on the same backend pushes the settings
\* the first cycle pushed
C12_ConfigUntouched ==
    [][ /\ index_settings' = index_settings
        /\ (pushed # None => pushed' = pushed) ]_vars

====
